---- MODULE Spec2Model ----
(***************************************************************************)
(* SwiftLogi backend: the order store, the product stock and the HTTP      *)
(* handlers that create orders, list open jobs and let a rider accept a    *)
(* job.  The repository holds several generations of the server; each is   *)
(* a deployment of its own ("variant"), with its own handlers:             *)
(*                                                                         *)
(*   "P3"  src/unnamed/part_003        orders (stock), jobs, jobs/accept   *)
(*   "S1"  src/server.js lines 1-179   orders (stock)                      *)
(*   "S2"  src/server.js lines 181-408 orders, orders/accept               *)
(*   "P2"  src/unnamed/part_002 1-83   orders, user/orders, jobs           *)
(*   "P2b" src/unnamed/part_002 84-265 orders, register                    *)
(*   "P4"  src/unnamed/part_004        orders                              *)
(*                                                                         *)
(* A request is received (the handler runs up to its first await), then    *)
(* every awaited store call is one atomic step of the store, after which   *)
(* the handler runs on to its next store call or to its response.  Steps   *)
(* of different requests interleave freely.  Any store call may fail       *)
(* (the driver throws): the handler's catch block answers it, and a        *)
(* handler without one sends no response (pc "unhandled").                 *)
(*                                                                         *)
(* Money: price and deliveryFee are whole currency units; commission is    *)
(* kept in hundredths of a unit so that price * 0.05 is exact.             *)
(*                                                                         *)
(* Time: createdAt is the reading of a clock taken when the document is    *)
(* built, before it is saved.                                              *)
(***************************************************************************)
EXTENDS Integers, Sequences, FiniteSets, TLC

VARIABLES variant, bodies, users, orders, stock, stock0, now, req

vars == <<variant, bodies, users, orders, stock, stock0, now, req>>

\* ---------------------------------------------------------------- bounds
MaxReqs == 2
MaxStock == 1

Reqs == 1..MaxReqs

\* ------------------------------------------------------------- constants
Null == "null"
NoNum == -1

Variants == {"P3", "S1", "S2", "P2", "P2b", "P4"}

DefaultDeliveryFee == 1500
DeliveryFee_p2 == 2500
CommissionPct_p3 == 5
CommissionPct_s1 == 5
CommissionPct_s2 == 10
CommissionPct_p2b == 10
CommissionPct_p4 == 10

\* ------------------------------------------------------------ identities
Riders == {"r1", "r2"}
UserIds == Riders \cup {"b1", "b2", "a1", "s1"}
Callers == Riders \cup {"b1", "a1"}
\* who sends which request
Buyers == {"b1"}
FeedCallers == {"r1", "b1", "a1"}
AcceptCallers == Riders \cup {"a1"}

Role(u) ==
    IF u \in Riders THEN "rider"
    ELSE IF u = "a1" THEN "admin"
    ELSE IF u = "s1" THEN "seller"
    ELSE "buyer"

ProductIds == {"p1"}
ProductPrice == 1005
ProductSeller == "s1"

\* request bodies.  The clients of one run either fill the body from the
\* product page and their own session ("plain", where a field may also be
\* left out or name something unknown), or put in values of their own
\* choosing ("forged").
BodyKinds == {"plain", "forged"}
ProductInputs == IF bodies = "plain" THEN {"p1", "px"} ELSE {"p1"}
SellerInputs == IF bodies = "plain" THEN {"s1", "sx", Null} ELSE {"sx"}
BuyerInputs == IF bodies = "plain" THEN {"b1", Null} ELSE {"b2"}
PriceInputs == IF bodies = "plain" THEN {ProductPrice} ELSE {5}
FeeInputs == {NoNum}
FeeInputs_s2 == {NoNum, 1500}
\* the :userId of a history request
HistoryUsers == {"b1", "s1"}

\* accounts: the users collection, a function from the emails that have an
\* account (unique index of models/User) to the account
Emails == {"e1"}
\* bcrypt.hash(password, salt): the salt is fresh for every call; request r
\* salts with r, the stored account was salted with 0
Hash(password, salt) == <<"bcrypt", password, salt>>
StoredUser == [password |-> Hash("pw1", 0), role |-> "buyer"]
NoUsers == [e \in {} |-> StoredUser]
\* no token in the response
NoToken == [id |-> Null, role |-> Null]
\* the body of a registration
PasswordInputs == {"pw2", Null}
RoleInputs == {"admin", Null}

\* ------------------------------------------------------------- requests
IdleReq ==
    [pc |-> "idle", kind |-> "none", caller |-> Null, oid |-> 0,
     pid |-> Null, buyer |-> Null, seller |-> Null, price |-> NoNum,
     fee |-> NoNum, loc |-> NoNum, stamp |-> 0, uid |-> Null,
     email |-> Null, pw |-> Null, role |-> Null, token |-> NoToken,
     resp |-> 0, jobs |-> {}, list |-> << >>, created |-> 0, stockDelta |-> 0,
     sawOrder |-> FALSE, afterWin |-> FALSE]

\* what a finished request keeps: its kind, caller, target and outcome;
\* the handler's locals are gone.
Finish(q, code) ==
    [q EXCEPT !.pc = "done", !.resp = code,
              !.pid = Null, !.buyer = Null, !.seller = Null,
              !.price = NoNum, !.fee = NoNum, !.loc = NoNum, !.stamp = 0,
              !.uid = Null, !.email = Null, !.pw = Null, !.role = Null]

\* requests are numbered in the order they arrive
CanArrive(r) ==
    /\ req[r].pc = "idle"
    /\ \A q \in Reqs : q < r => req[q].pc # "idle"

OrderIds == 1..Len(orders)
TargetIds == 1..(Len(orders) + 1)

\* ---------------------------------------------------------------- orders
\* faulty variant: a new order already has a rider
NewOrder_Assigned(buyer, seller, product, price, fee, total, commission, status, at) ==
    [buyer |-> buyer, seller |-> seller, product |-> product,
     price |-> price, deliveryFee |-> fee, totalAmount |-> total,
     commission |-> commission, status |-> status, rider |-> "r1",
     createdAt |-> at]

\* new Order({...}): the paths the handler sets; rider by the schema default
NewOrder(buyer, seller, product, price, fee, total, commission, status, at) ==
    [buyer |-> buyer, seller |-> seller, product |-> product,
     price |-> price, deliveryFee |-> fee, totalAmount |-> total,
     commission |-> commission, status |-> status, rider |-> Null,
     createdAt |-> at]

\* Math.round on an amount kept in hundredths
Round(h) == ((h + 50) \div 100) * 100

\* faulty variant: the commission is rounded to whole units
OrderDoc_Rounded(buyer, seller, product, price, fee, at) ==
    NewOrder(buyer, seller, product, price,
             IF fee = NoNum THEN DefaultDeliveryFee ELSE fee,
             NoNum, Round(price * CommissionPct_p3), "pending", at)

\* OrderSchema of part_003: deliveryFee defaults to 1500 when undefined
OrderDoc_p3(buyer, seller, product, price, fee, at) ==
    NewOrder(buyer, seller, product, price,
             IF fee = NoNum THEN DefaultDeliveryFee ELSE fee,
             NoNum, price * CommissionPct_p3, "pending", at)

\* required paths of the schema: buyer, seller, product, price, commission
Valid_p3(buyer, seller, product, price) ==
    buyer # Null /\ seller # Null /\ product # Null /\ price # NoNum

\* OrderSchema of server.js 51-60: the same paths, without rider
OrderDoc_s1(buyer, seller, product, price, fee, at) ==
    NewOrder(buyer, seller, product, price,
             IF fee = NoNum THEN DefaultDeliveryFee ELSE fee,
             NoNum, price * CommissionPct_s1, "pending", at)

Valid_s1(buyer, seller, product, price) ==
    buyer # Null /\ seller # Null /\ product # Null /\ price # NoNum

\* models/Order (part_001): no price path; totalAmount = price + deliveryFee
\* is computed by the handler (NaN when either is undefined)
OrderDoc_s2(buyer, seller, product, price, fee, at) ==
    NewOrder(buyer, seller, product, NoNum,
             IF fee = NoNum THEN DefaultDeliveryFee ELSE fee,
             IF price = NoNum \/ fee = NoNum THEN NoNum ELSE price + fee,
             IF price = NoNum THEN NoNum ELSE price * CommissionPct_s2,
             "pending", at)

\* required: product, buyer, seller, totalAmount; NaN is no Number
Valid_s2(buyer, seller, product, price, fee) ==
    /\ buyer # Null /\ seller # Null /\ product # Null
    /\ price # NoNum /\ fee # NoNum

\* the inline schema of part_002 32-41: nothing required, fee fixed at 2500
OrderDoc_p2(buyer, seller, product, price, at) ==
    NewOrder(buyer, seller, product, price, DeliveryFee_p2, NoNum, NoNum,
             "pending", at)

\* models/Order of part_002 84-265 and part_004 (part_000, the schema with
\* status 'Placed'): no price, deliveryFee or rider path; orderDate
OrderDoc_placed(buyer, seller, product, total, commission, at) ==
    NewOrder(buyer, seller, product, NoNum, NoNum, total, commission,
             "Placed", at)

\* required: product, buyer, seller, totalAmount, commission
Valid_placed(buyer, seller, product, total, commission) ==
    /\ buyer # Null /\ seller # Null /\ product # Null
    /\ total # NoNum /\ commission # NoNum

\* price + (deliveryFee || 0)
TotalOrZero(price, fee) ==
    IF price = NoNum THEN NoNum
    ELSE price + (IF fee = NoNum THEN 0 ELSE fee)

\* price * COMMISSION_RATE, in hundredths
Commission(price, pct) == IF price = NoNum THEN NoNum ELSE price * pct

\* an order an earlier request of the same deployment has stored
FirstOrder(v) ==
    CASE v = "P3" -> OrderDoc_p3("b1", "s1", "p1", ProductPrice, NoNum, 0)
      [] v = "S1" -> OrderDoc_s1("b1", "s1", "p1", ProductPrice, NoNum, 0)
      [] v = "S2" -> OrderDoc_s2("b1", ProductSeller, "p1", ProductPrice,
                                 DefaultDeliveryFee, 0)
      [] v = "P2"  -> OrderDoc_p2("b1", "s1", "p1", ProductPrice, 0)
      [] v = "P2b" -> OrderDoc_placed("b1", ProductSeller, "p1",
                          TotalOrZero(ProductPrice, DefaultDeliveryFee),
                          Commission(ProductPrice, CommissionPct_p2b), 0)
      [] OTHER     -> OrderDoc_placed("b1", "s1", "p1",
                          TotalOrZero(ProductPrice, DefaultDeliveryFee),
                          Commission(ProductPrice, CommissionPct_p4), 0)

\* Date.now() at the construction of a document (the createdAt default):
\* the variable now is the next reading, each reading is later than the one
\* before it

Init ==
    /\ variant \in Variants
    /\ bodies \in BodyKinds
    /\ users = NoUsers
    /\ orders \in {<< >>, <<FirstOrder(variant)>>}
    /\ stock0 \in 0..MaxStock
    /\ stock = [p \in ProductIds |-> stock0]
    /\ now = 1
    /\ req = [r \in Reqs |-> IdleReq]

\* ------------------------------------------------ POST /api/orders (P3)
\* part_003 119-126: destructure the body, buyer from the token, !sellerId
CreateRecv_p3(r) ==
    /\ variant = "P3"
    /\ CanArrive(r)
    /\ \E c \in Buyers, p \in ProductInputs, s \in SellerInputs,
          pr \in PriceInputs, f \in FeeInputs :
         LET q == [req[r] EXCEPT !.kind = "create", !.caller = c, !.pid = p,
                                 !.seller = s, !.price = pr, !.fee = f]
         IN  req' = [req EXCEPT ![r] =
                        IF s = Null THEN Finish(q, 400)
                        ELSE [q EXCEPT !.pc = "find"]]
    /\ UNCHANGED <<variant, bodies, users, orders, stock, stock0, now>>

\* part_003 128-131: Product.findById, then !product || product.stock < 1
CreateFind_p3(r) ==
    /\ variant = "P3"
    /\ req[r].kind = "create" /\ req[r].pc = "find"
    /\ \/ /\ req' = [req EXCEPT ![r] = Finish(@, 500)]
          /\ UNCHANGED now
       \/ /\ req[r].pid \notin ProductIds
          /\ req' = [req EXCEPT ![r] = Finish(@, 400)]
          /\ UNCHANGED now
       \/ /\ req[r].pid \in ProductIds /\ stock[req[r].pid] < 1
          /\ req' = [req EXCEPT ![r] = Finish(@, 400)]
          /\ UNCHANGED now
       \/ /\ req[r].pid \in ProductIds /\ stock[req[r].pid] >= 1
          /\ now' = now + 1
          /\ req' = [req EXCEPT ![r] =
                        [@ EXCEPT !.pc = "saveOrder", !.stamp = now,
                                  !.loc = stock[req[r].pid]]]
    /\ UNCHANGED <<variant, bodies, users, orders, stock, stock0>>

\* part_003 133-146: commission, new Order, order.save()
CreateSaveOrder_p3(r) ==
    /\ variant = "P3"
    /\ req[r].kind = "create" /\ req[r].pc = "saveOrder"
    /\ LET q == req[r]
           ok == Valid_p3(q.caller, q.seller, q.pid, q.price)
       IN  \/ /\ req' = [req EXCEPT ![r] = Finish(@, 500)]
              /\ UNCHANGED orders
           \/ /\ ok
              /\ orders' = Append(orders,
                     OrderDoc_p3(q.caller, q.seller, q.pid, q.price, q.fee,
                                 q.stamp))
              /\ req' = [req EXCEPT ![r] =
                            [@ EXCEPT !.pc = "saveProduct",
                                      !.created = Len(orders) + 1]]
    /\ UNCHANGED <<variant, bodies, users, stock, stock0, now>>

\* faulty variant: two units are taken
DecrementedTwice(read) == read - 2

\* the value product.save() writes: the stock this request read, less one
DecrementedStock(read) == read - 1

\* part_003 147-155: product.stock -= 1, product.save(), 201
CreateSaveProduct_p3(r) ==
    /\ variant = "P3"
    /\ req[r].kind = "create" /\ req[r].pc = "saveProduct"
    /\ \/ /\ req' = [req EXCEPT ![r] = Finish(@, 500)]
          /\ UNCHANGED stock
       \/ LET p == req[r].pid
              w == DecrementedStock(req[r].loc)
          IN  /\ stock' = [stock EXCEPT ![p] = w]
              /\ req' = [req EXCEPT ![r] =
                            Finish([@ EXCEPT !.stockDelta = w - stock[p]], 201)]
    /\ UNCHANGED <<variant, bodies, users, orders, stock0, now>>

\* ---------------------------------------------------- GET /api/jobs (P3)
\* part_003 166: the role guard of the feed
MayViewJobs_p3(role) == role = "rider" \/ role = "admin"

\* faulty variant: the query has no filter
JobFilter_All(o) == TRUE

\* part_003 172-175: Order.find({ status: 'pending', rider: null })
JobFilter_p3(o) == o.status = "pending" /\ o.rider = Null

\* part_003 176-178: populate() leaves null where the referenced user or
\* product does not exist
Populated(o) ==
    o.seller \in UserIds /\ o.buyer \in UserIds /\ o.product \in ProductIds

\* part_003 164-168
JobsRecv_p3(r) ==
    /\ variant = "P3"
    /\ CanArrive(r)
    /\ \E c \in FeedCallers :
         LET q == [req[r] EXCEPT !.kind = "jobs", !.caller = c]
         IN  req' = [req EXCEPT ![r] =
                        IF ~MayViewJobs_p3(Role(c)) THEN Finish(q, 403)
                        ELSE [q EXCEPT !.pc = "query"]]
    /\ UNCHANGED <<variant, bodies, users, orders, stock, stock0, now>>

\* part_003 170-195: find + populate, then map(): job.seller.name throws a
\* TypeError on a null reference, which the catch block answers with 500
JobsQuery_p3(r) ==
    /\ variant = "P3"
    /\ req[r].kind = "jobs" /\ req[r].pc = "query"
    /\ LET open == {o \in OrderIds : JobFilter_p3(orders[o])}
       IN  \/ req' = [req EXCEPT ![r] = Finish(@, 500)]
           \/ req' = [req EXCEPT ![r] =
                         IF \E o \in open : ~Populated(orders[o])
                         THEN Finish(@, 500)
                         ELSE Finish([@ EXCEPT !.jobs = open], 200)]
    /\ UNCHANGED <<variant, bodies, users, orders, stock, stock0, now>>

\* ------------------------------------ POST /api/jobs/:orderId/accept (P3)
\* part_003 200
MayAccept_p3(role) == role = "rider"

\* some earlier request of this caller on this order was answered 200
WonBefore(c, o) ==
    \E q \in Reqs : /\ req[q].kind = "accept" /\ req[q].pc = "done"
                    /\ req[q].caller = c /\ req[q].oid = o
                    /\ req[q].resp = 200

\* part_003 199-206
AcceptRecv_p3(r) ==
    /\ variant = "P3"
    /\ CanArrive(r)
    /\ \E c \in AcceptCallers, o \in TargetIds :
         LET q == [req[r] EXCEPT !.kind = "accept", !.caller = c, !.oid = o,
                                 !.afterWin = WonBefore(c, o)]
         IN  req' = [req EXCEPT ![r] =
                        IF ~MayAccept_p3(Role(c)) THEN Finish(q, 403)
                        ELSE [q EXCEPT !.pc = "update"]]
    /\ UNCHANGED <<variant, bodies, users, orders, stock, stock0, now>>

\* faulty variant: the update is keyed on _id alone
AcceptGuard_IdOnly(o) == TRUE

\* part_003 210-214: the filter of findOneAndUpdate, beside _id
AcceptGuard_p3(o) == o.status = "pending" /\ o.rider = Null

\* faulty variant: the update marks the order delivered
AcceptSet_Delivered(o, riderId) ==
    [o EXCEPT !.status = "delivered", !.rider = riderId]

\* part_003 215-220: $set { status: 'shipped', rider: riderId }
AcceptSet_p3(o, riderId) == [o EXCEPT !.status = "shipped", !.rider = riderId]

\* part_003 209-231: one findOneAndUpdate, then 404 on null or 200
AcceptUpdate_p3(r) ==
    /\ variant = "P3"
    /\ req[r].kind = "accept" /\ req[r].pc = "update"
    /\ LET o == req[r].oid
           here == o \in OrderIds
       IN  \/ /\ req' = [req EXCEPT ![r] = Finish(@, 500)]
              /\ UNCHANGED orders
           \/ /\ here /\ AcceptGuard_p3(orders[o])
              /\ orders' = [orders EXCEPT ![o] = AcceptSet_p3(@, req[r].caller)]
              /\ req' = [req EXCEPT ![r] =
                            Finish([@ EXCEPT !.sawOrder = TRUE], 200)]
           \/ /\ ~(here /\ AcceptGuard_p3(orders[o]))
              /\ UNCHANGED orders
              /\ req' = [req EXCEPT ![r] =
                            Finish([@ EXCEPT !.sawOrder = here], 404)]
    /\ UNCHANGED <<variant, bodies, users, stock, stock0, now>>

NextP3 ==
    \E r \in Reqs :
        \/ CreateRecv_p3(r)
        \/ CreateFind_p3(r)
        \/ CreateSaveOrder_p3(r)
        \/ CreateSaveProduct_p3(r)
        \/ JobsRecv_p3(r)
        \/ JobsQuery_p3(r)
        \/ AcceptRecv_p3(r)
        \/ AcceptUpdate_p3(r)

\* ------------------------------------------------ POST /api/orders (S1)
\* server.js 121-129
CreateRecv_s1(r) ==
    /\ variant = "S1"
    /\ CanArrive(r)
    /\ \E c \in Buyers, p \in ProductInputs, s \in SellerInputs,
          pr \in PriceInputs, f \in FeeInputs :
         LET q == [req[r] EXCEPT !.kind = "create", !.caller = c, !.pid = p,
                                 !.seller = s, !.price = pr, !.fee = f]
         IN  req' = [req EXCEPT ![r] =
                        IF s = Null THEN Finish(q, 400)
                        ELSE [q EXCEPT !.pc = "find"]]
    /\ UNCHANGED <<variant, bodies, users, orders, stock, stock0, now>>

\* server.js 131-137: 404 for a missing product, 400 for stock < 1
CreateFind_s1(r) ==
    /\ variant = "S1"
    /\ req[r].kind = "create" /\ req[r].pc = "find"
    /\ \/ /\ req' = [req EXCEPT ![r] = Finish(@, 500)]
          /\ UNCHANGED now
       \/ /\ req[r].pid \notin ProductIds
          /\ req' = [req EXCEPT ![r] = Finish(@, 404)]
          /\ UNCHANGED now
       \/ /\ req[r].pid \in ProductIds /\ stock[req[r].pid] < 1
          /\ req' = [req EXCEPT ![r] = Finish(@, 400)]
          /\ UNCHANGED now
       \/ /\ req[r].pid \in ProductIds /\ stock[req[r].pid] >= 1
          /\ now' = now + 1
          /\ req' = [req EXCEPT ![r] =
                        [@ EXCEPT !.pc = "saveOrder", !.stamp = now,
                                  !.loc = stock[req[r].pid]]]
    /\ UNCHANGED <<variant, bodies, users, orders, stock, stock0>>

\* server.js 139-152
CreateSaveOrder_s1(r) ==
    /\ variant = "S1"
    /\ req[r].kind = "create" /\ req[r].pc = "saveOrder"
    /\ LET q == req[r]
           ok == Valid_s1(q.caller, q.seller, q.pid, q.price)
       IN  \/ /\ req' = [req EXCEPT ![r] = Finish(@, 500)]
              /\ UNCHANGED orders
           \/ /\ ok
              /\ orders' = Append(orders,
                     OrderDoc_s1(q.caller, q.seller, q.pid, q.price, q.fee,
                                 q.stamp))
              /\ req' = [req EXCEPT ![r] =
                            [@ EXCEPT !.pc = "saveProduct",
                                      !.created = Len(orders) + 1]]
    /\ UNCHANGED <<variant, bodies, users, stock, stock0, now>>

\* server.js 154-163
CreateSaveProduct_s1(r) ==
    /\ variant = "S1"
    /\ req[r].kind = "create" /\ req[r].pc = "saveProduct"
    /\ \/ /\ req' = [req EXCEPT ![r] = Finish(@, 500)]
          /\ UNCHANGED stock
       \/ LET p == req[r].pid
              w == DecrementedStock(req[r].loc)
          IN  /\ stock' = [stock EXCEPT ![p] = w]
              /\ req' = [req EXCEPT ![r] =
                            Finish([@ EXCEPT !.stockDelta = w - stock[p]], 201)]
    /\ UNCHANGED <<variant, bodies, users, orders, stock0, now>>

NextS1 ==
    \E r \in Reqs :
        \/ CreateRecv_s1(r)
        \/ CreateFind_s1(r)
        \/ CreateSaveOrder_s1(r)
        \/ CreateSaveProduct_s1(r)

\* ------------------------------------------------ POST /api/orders (S2)
\* server.js 312-317: no auth middleware; the buyer comes from the body
CreateRecv_s2(r) ==
    /\ variant = "S2"
    /\ CanArrive(r)
    /\ \E c \in Buyers, b \in BuyerInputs, p \in ProductInputs,
          pr \in PriceInputs, f \in FeeInputs_s2 :
         req' = [req EXCEPT ![r] =
                    [@ EXCEPT !.kind = "create", !.caller = c, !.buyer = b,
                              !.pid = p, !.price = pr, !.fee = f,
                              !.pc = "find"]]
    /\ UNCHANGED <<variant, bodies, users, orders, stock, stock0, now>>

\* server.js 317-318
CreateFind_s2(r) ==
    /\ variant = "S2"
    /\ req[r].kind = "create" /\ req[r].pc = "find"
    /\ \/ /\ req' = [req EXCEPT ![r] = Finish(@, 500)]
          /\ UNCHANGED now
       \/ /\ req[r].pid \notin ProductIds
          /\ req' = [req EXCEPT ![r] = Finish(@, 404)]
          /\ UNCHANGED now
       \/ /\ req[r].pid \in ProductIds
          /\ now' = now + 1
          /\ req' = [req EXCEPT ![r] =
                        [@ EXCEPT !.pc = "saveOrder", !.stamp = now,
                                  !.seller = ProductSeller]]
    /\ UNCHANGED <<variant, bodies, users, orders, stock, stock0>>

\* server.js 320-339
CreateSaveOrder_s2(r) ==
    /\ variant = "S2"
    /\ req[r].kind = "create" /\ req[r].pc = "saveOrder"
    /\ LET q == req[r]
           ok == Valid_s2(q.buyer, q.seller, q.pid, q.price, q.fee)
       IN  \/ /\ req' = [req EXCEPT ![r] = Finish(@, 500)]
              /\ UNCHANGED orders
           \/ /\ ok
              /\ orders' = Append(orders,
                     OrderDoc_s2(q.buyer, q.seller, q.pid, q.price, q.fee,
                                 q.stamp))
              /\ req' = [req EXCEPT ![r] =
                            Finish([@ EXCEPT !.created = Len(orders) + 1], 201)]
    /\ UNCHANGED <<variant, bodies, users, stock, stock0, now>>

\* ------------------------------- POST /api/orders/accept/:orderId (S2)
\* faulty variant: the administrative role may accept as well
MayAccept_OrAdmin(role) == role = "rider" \/ role = "admin"

\* server.js 381
MayAccept_s2(role) == role = "rider"

\* server.js 374-385
AcceptRecv_s2(r) ==
    /\ variant = "S2"
    /\ CanArrive(r)
    /\ \E c \in AcceptCallers, o \in TargetIds :
         LET q == [req[r] EXCEPT !.kind = "accept", !.caller = c, !.oid = o,
                                 !.afterWin = WonBefore(c, o)]
         IN  req' = [req EXCEPT ![r] =
                        IF ~MayAccept_s2(Role(c)) THEN Finish(q, 403)
                        ELSE [q EXCEPT !.pc = "read"]]
    /\ UNCHANGED <<variant, bodies, users, orders, stock, stock0, now>>

\* faulty variant: the already-assigned check is missing
Assigned_Never(o) == FALSE

\* server.js 391: order.rider !== null
Assigned_s2(o) == o.rider # Null

\* server.js 385-393: Order.findById, 404, 400
AcceptRead_s2(r) ==
    /\ variant = "S2"
    /\ req[r].kind = "accept" /\ req[r].pc = "read"
    /\ LET o == req[r].oid
       IN  \/ req' = [req EXCEPT ![r] = Finish(@, 500)]
           \/ req' = [req EXCEPT ![r] =
                         IF o \notin OrderIds THEN Finish(@, 404)
                         ELSE IF Assigned_s2(orders[o])
                         THEN Finish([@ EXCEPT !.sawOrder = TRUE], 400)
                         ELSE [@ EXCEPT !.pc = "save", !.sawOrder = TRUE]]
    /\ UNCHANGED <<variant, bodies, users, orders, stock, stock0, now>>

\* faulty variant: the status is left as it was
AcceptSet_RiderOnly(o, riderId) == [o EXCEPT !.rider = riderId]

\* faulty variant: the save writes the amount again, without the fee
AcceptSet_Retotalled(o, riderId) ==
    [o EXCEPT !.rider = riderId, !.status = "shipping",
              !.totalAmount = @ - o.deliveryFee]

\* server.js 396-397: the two paths order.save() writes
AcceptSet_s2(o, riderId) == [o EXCEPT !.rider = riderId, !.status = "shipping"]

\* server.js 396-403: order.save() is an update by _id of the modified
\* paths, whatever the stored document holds by now
AcceptSave_s2(r) ==
    /\ variant = "S2"
    /\ req[r].kind = "accept" /\ req[r].pc = "save"
    /\ \/ /\ req' = [req EXCEPT ![r] = Finish(@, 500)]
          /\ UNCHANGED orders
       \/ /\ orders' = [orders EXCEPT ![req[r].oid] =
                           AcceptSet_s2(@, req[r].caller)]
          /\ req' = [req EXCEPT ![r] = Finish(@, 200)]
    /\ UNCHANGED <<variant, bodies, users, stock, stock0, now>>

NextS2 ==
    \E r \in Reqs :
        \/ CreateRecv_s2(r)
        \/ CreateFind_s2(r)
        \/ CreateSaveOrder_s2(r)
        \/ AcceptRecv_s2(r)
        \/ AcceptRead_s2(r)
        \/ AcceptSave_s2(r)

\* ------------------------------------------------ POST /api/orders (P2)
\* part_002 63-66: no auth, no product lookup; everything from the body
CreateRecv_p2(r) ==
    /\ variant = "P2"
    /\ CanArrive(r)
    /\ \E c \in Buyers, b \in BuyerInputs, p \in ProductInputs,
          s \in SellerInputs, pr \in PriceInputs :
         /\ now' = now + 1
         /\ req' = [req EXCEPT ![r] =
                       [@ EXCEPT !.kind = "create", !.caller = c,
                                 !.buyer = b, !.pid = p, !.seller = s,
                                 !.price = pr, !.stamp = now,
                                 !.pc = "saveOrder"]]
    /\ UNCHANGED <<variant, bodies, users, orders, stock, stock0>>

\* part_002 67-69: order.save(); the catch block answers 400
CreateSaveOrder_p2(r) ==
    /\ variant = "P2"
    /\ req[r].kind = "create" /\ req[r].pc = "saveOrder"
    /\ LET q == req[r]
       IN  \/ /\ req' = [req EXCEPT ![r] = Finish(@, 400)]
              /\ UNCHANGED orders
           \/ /\ orders' = Append(orders,
                     OrderDoc_p2(q.buyer, q.seller, q.pid, q.price, q.stamp))
              /\ req' = [req EXCEPT ![r] =
                            Finish([@ EXCEPT !.created = Len(orders) + 1], 201)]
    /\ UNCHANGED <<variant, bodies, users, stock, stock0, now>>

\* --------------------------------------------------- GET /api/jobs (P2)
\* part_002 80: Order.find({ status: 'pending', rider: null })
JobFilter_p2(o) == o.status = "pending" /\ o.rider = Null

\* part_002 79: no middleware and no role guard in front of the query
JobsRecv_p2(r) ==
    /\ variant = "P2"
    /\ CanArrive(r)
    /\ \E c \in FeedCallers :
         req' = [req EXCEPT ![r] =
                    [@ EXCEPT !.kind = "jobs", !.caller = c, !.pc = "query"]]
    /\ UNCHANGED <<variant, bodies, users, orders, stock, stock0, now>>

\* part_002 79-81: no try/catch: a rejected find() is an unhandled
\* rejection and no response is sent
JobsQuery_p2(r) ==
    /\ variant = "P2"
    /\ req[r].kind = "jobs" /\ req[r].pc = "query"
    /\ \/ req' = [req EXCEPT ![r] = [@ EXCEPT !.pc = "unhandled"]]
       \/ req' = [req EXCEPT ![r] =
                     Finish([@ EXCEPT !.jobs =
                               {o \in OrderIds : JobFilter_p2(orders[o])}],
                            200)]
    /\ UNCHANGED <<variant, bodies, users, orders, stock, stock0, now>>

\* ------------------------------------ GET /api/user/orders/:userId (P2)
\* faulty variant: only the buyer path is matched
Match_BuyerOnly(o, uid) == o.buyer = uid

\* part_002 74: { $or: [{ buyer: userId }, { seller: userId }, { rider: userId }] }
Match_p2(o, uid) == o.buyer = uid \/ o.seller = uid \/ o.rider = uid

\* part_002 75: sort({ createdAt: -1 }); the store orders equal times as it
\* likes
SortedByCreatedAtDesc(lst) ==
    \A i, j \in 1..Len(lst) :
        i < j => orders[lst[i]].createdAt >= orders[lst[j]].createdAt

\* the lists that hold each order of ids once, newest first
SortedLists(ids) ==
    {lst \in [1..Cardinality(ids) -> ids] :
        /\ \A i, j \in 1..Cardinality(ids) : i # j => lst[i] # lst[j]
        /\ SortedByCreatedAtDesc(lst)}

\* part_002 72-73: no middleware; userId from the path
HistoryRecv_p2(r) ==
    /\ variant = "P2"
    /\ CanArrive(r)
    /\ \E c \in Buyers, u \in HistoryUsers :
         req' = [req EXCEPT ![r] =
                    [@ EXCEPT !.kind = "history", !.caller = c, !.uid = u,
                              !.pc = "query"]]
    /\ UNCHANGED <<variant, bodies, users, orders, stock, stock0, now>>

\* part_002 74-76: find, populate, sort, res.json; no try/catch
HistoryQuery_p2(r) ==
    /\ variant = "P2"
    /\ req[r].kind = "history" /\ req[r].pc = "query"
    /\ \/ req' = [req EXCEPT ![r] = [@ EXCEPT !.pc = "unhandled"]]
       \/ \E lst \in SortedLists({o \in OrderIds :
                                     Match_p2(orders[o], req[r].uid)}) :
            req' = [req EXCEPT ![r] = Finish([@ EXCEPT !.list = lst], 200)]
    /\ UNCHANGED <<variant, bodies, users, orders, stock, stock0, now>>

NextP2 ==
    \E r \in Reqs :
        \/ CreateRecv_p2(r)
        \/ CreateSaveOrder_p2(r)
        \/ JobsRecv_p2(r)
        \/ JobsQuery_p2(r)
        \/ HistoryRecv_p2(r)
        \/ HistoryQuery_p2(r)

\* ----------------------------------------------- POST /api/orders (P2b)
\* part_002 216-220: auth, buyer from the token, productId and deliveryFee
\* from the body
CreateRecv_p2b(r) ==
    /\ variant = "P2b"
    /\ CanArrive(r)
    /\ \E c \in Buyers, p \in ProductInputs, f \in FeeInputs_s2 :
         req' = [req EXCEPT ![r] =
                    [@ EXCEPT !.kind = "create", !.caller = c, !.pid = p,
                              !.fee = f, !.pc = "find"]]
    /\ UNCHANGED <<variant, bodies, users, orders, stock, stock0, now>>

\* part_002 223-230: Product.findById, 404; price and seller of the product
CreateFind_p2b(r) ==
    /\ variant = "P2b"
    /\ req[r].kind = "create" /\ req[r].pc = "find"
    /\ \/ /\ req' = [req EXCEPT ![r] = Finish(@, 500)]
          /\ UNCHANGED now
       \/ /\ req[r].pid \notin ProductIds
          /\ req' = [req EXCEPT ![r] = Finish(@, 404)]
          /\ UNCHANGED now
       \/ /\ req[r].pid \in ProductIds
          /\ now' = now + 1
          /\ req' = [req EXCEPT ![r] =
                        [@ EXCEPT !.pc = "saveOrder", !.stamp = now,
                                  !.price = ProductPrice,
                                  !.seller = ProductSeller]]
    /\ UNCHANGED <<variant, bodies, users, orders, stock, stock0>>

\* part_002 233-259: totalAmount, commission, new Order, save, 201
CreateSaveOrder_p2b(r) ==
    /\ variant = "P2b"
    /\ req[r].kind = "create" /\ req[r].pc = "saveOrder"
    /\ LET q == req[r]
           total == TotalOrZero(q.price, q.fee)
           commission == Commission(q.price, CommissionPct_p2b)
       IN  \/ /\ req' = [req EXCEPT ![r] = Finish(@, 500)]
              /\ UNCHANGED orders
           \/ /\ Valid_placed(q.caller, q.seller, q.pid, total, commission)
              /\ orders' = Append(orders,
                     OrderDoc_placed(q.caller, q.seller, q.pid, total,
                                     commission, q.stamp))
              /\ req' = [req EXCEPT ![r] =
                            Finish([@ EXCEPT !.created = Len(orders) + 1], 201)]
    /\ UNCHANGED <<variant, bodies, users, stock, stock0, now>>

NextP2b ==
    \E r \in Reqs :
        \/ CreateRecv_p2b(r)
        \/ CreateFind_p2b(r)
        \/ CreateSaveOrder_p2b(r)

\* ------------------------------------------------ POST /api/orders (P4)
\* a body may also leave out productId and price
ProductInputs_p4 == ProductInputs \cup {Null}
PriceInputs_p4 == PriceInputs \cup {NoNum}

\* faulty variant: only the seller is asked for
MissingField_SellerOnly(pid, price, seller) == seller = Null

\* part_004 63: !productId || !price || !sellerId
MissingField_p4(pid, price, seller) ==
    pid = Null \/ price = NoNum \/ price = 0 \/ seller = Null

\* part_004 56-65: auth, buyer from the token, the rest from the body; 400
\* when a field is missing; no product lookup
CreateRecv_p4(r) ==
    /\ variant = "P4"
    /\ CanArrive(r)
    /\ \E c \in Buyers, p \in ProductInputs_p4, s \in SellerInputs,
          pr \in PriceInputs_p4, f \in FeeInputs_s2 :
         LET q == [req[r] EXCEPT !.kind = "create", !.caller = c, !.pid = p,
                                 !.seller = s, !.price = pr, !.fee = f]
         IN  \/ /\ MissingField_p4(p, pr, s)
                /\ req' = [req EXCEPT ![r] = Finish(q, 400)]
                /\ UNCHANGED now
             \/ /\ ~MissingField_p4(p, pr, s)
                /\ now' = now + 1
                /\ req' = [req EXCEPT ![r] =
                              [q EXCEPT !.pc = "saveOrder", !.stamp = now]]
    /\ UNCHANGED <<variant, bodies, users, orders, stock, stock0>>

\* part_004 67-92: totalAmount, commission, new Order, save, 201
CreateSaveOrder_p4(r) ==
    /\ variant = "P4"
    /\ req[r].kind = "create" /\ req[r].pc = "saveOrder"
    /\ LET q == req[r]
           total == TotalOrZero(q.price, q.fee)
           commission == Commission(q.price, CommissionPct_p4)
       IN  \/ /\ req' = [req EXCEPT ![r] = Finish(@, 500)]
              /\ UNCHANGED orders
           \/ /\ Valid_placed(q.caller, q.seller, q.pid, total, commission)
              /\ orders' = Append(orders,
                     OrderDoc_placed(q.caller, q.seller, q.pid, total,
                                     commission, q.stamp))
              /\ req' = [req EXCEPT ![r] =
                            Finish([@ EXCEPT !.created = Len(orders) + 1], 201)]
    /\ UNCHANGED <<variant, bodies, users, stock, stock0, now>>

NextP4 ==
    \E r \in Reqs :
        \/ CreateRecv_p4(r)
        \/ CreateSaveOrder_p4(r)

\* ------------------------------- POST /api/register (S2 and P2b)
\* role || 'buyer'
RoleOrBuyer(role) == IF role = Null THEN "buyer" ELSE role

\* jwt.sign({ id, role })
Token(email, role) == [id |-> email, role |-> role]

\* server.js 243: !name || !email || !password; part_002 145: !email ||
\* !password (the name is always sent here)
RegisterRecv(r) ==
    /\ variant \in {"S2", "P2b"}
    /\ CanArrive(r)
    /\ \E e \in Emails, p \in PasswordInputs, ro \in RoleInputs :
         LET q == [req[r] EXCEPT !.kind = "register", !.email = e, !.pw = p,
                                 !.role = ro]
         IN  req' = [req EXCEPT ![r] =
                        IF p = Null THEN Finish(q, 400)
                        ELSE [q EXCEPT !.pc = "findUser"]]
    /\ UNCHANGED <<variant, bodies, users, orders, stock, stock0, now>>

\* server.js 245-246: User.findOne({ email }); 400 when the user exists
RegisterFind_s2(r) ==
    /\ variant = "S2"
    /\ req[r].kind = "register" /\ req[r].pc = "findUser"
    /\ \/ req' = [req EXCEPT ![r] = Finish(@, 500)]
       \/ req' = [req EXCEPT ![r] =
                     IF req[r].email \in DOMAIN users THEN Finish(@, 400)
                     ELSE [@ EXCEPT !.pc = "saveUser"]]
    /\ UNCHANGED <<variant, bodies, users, orders, stock, stock0, now>>

\* part_002 147-149: User.findOne({ email }); an existing user is kept for
\* the overwrite
RegisterFind_p2b(r) ==
    /\ variant = "P2b"
    /\ req[r].kind = "register" /\ req[r].pc = "findUser"
    /\ \/ req' = [req EXCEPT ![r] = Finish(@, 500)]
       \/ req' = [req EXCEPT ![r] =
                     IF req[r].email \in DOMAIN users
                     THEN [@ EXCEPT !.pc = "saveExisting"]
                     ELSE [@ EXCEPT !.pc = "saveUser"]]
    /\ UNCHANGED <<variant, bodies, users, orders, stock, stock0, now>>

\* part_002 151-153: existingUser.password = hash; existingUser.role =
\* role || 'buyer'
Overwritten(u, password, role, salt) ==
    [u EXCEPT !.password = Hash(password, salt), !.role = RoleOrBuyer(role)]

\* part_002 154-161: existingUser.save() writes the two paths by _id; 200
\* with a token for the account
RegisterSaveExisting_p2b(r) ==
    /\ variant = "P2b"
    /\ req[r].kind = "register" /\ req[r].pc = "saveExisting"
    /\ LET e == req[r].email
           u == Overwritten(users[e], req[r].pw, req[r].role, r)
       IN  \/ /\ req' = [req EXCEPT ![r] = Finish(@, 500)]
              /\ UNCHANGED users
           \/ /\ users' = [users EXCEPT ![e] = u]
              /\ req' = [req EXCEPT ![r] =
                            Finish([@ EXCEPT !.token = Token(e, u.role)], 200)]
    /\ UNCHANGED <<variant, bodies, orders, stock, stock0, now>>

\* server.js 248-260, part_002 164-176: hash, new User, save, 201 with a
\* token; the unique index on email rejects a second insert, which the
\* catch block answers with 500
RegisterSaveUser(r) ==
    /\ variant \in {"S2", "P2b"}
    /\ req[r].kind = "register" /\ req[r].pc = "saveUser"
    /\ LET e == req[r].email
           u == [password |-> Hash(req[r].pw, r),
                 role |-> RoleOrBuyer(req[r].role)]
       IN  \/ /\ req' = [req EXCEPT ![r] = Finish(@, 500)]
              /\ UNCHANGED users
           \/ /\ e \notin DOMAIN users
              /\ users' = [a \in DOMAIN users \cup {e} |->
                               IF a = e THEN u ELSE users[a]]
              /\ req' = [req EXCEPT ![r] =
                            Finish([@ EXCEPT !.token = Token(e, u.role)], 201)]
    /\ UNCHANGED <<variant, bodies, orders, stock, stock0, now>>

NextRegister ==
    \E r \in Reqs :
        \/ RegisterRecv(r)
        \/ RegisterFind_s2(r)
        \/ RegisterFind_p2b(r)
        \/ RegisterSaveExisting_p2b(r)
        \/ RegisterSaveUser(r)

\* ------------------------------------------------------- specifications
Next == NextP3 \/ NextS1 \/ NextS2 \/ NextP2 \/ NextP2b \/ NextP4

\* every deployment
Spec == Init /\ [][Next]_vars

\* every deployment, where the event loop runs each received request on to
\* its response and clients keep sending requests
SpecFair == Spec /\ WF_vars(Next)

\* the two servers with a lookup in /api/register, on a users collection
\* that is empty or holds the account of e1
InitRegister ==
    /\ variant \in {"S2", "P2b"}
    /\ bodies = "plain"
    /\ users \in {NoUsers, [e \in Emails |-> StoredUser]}
    /\ orders = << >>
    /\ stock0 = 0
    /\ stock = [p \in ProductIds |-> stock0]
    /\ now = 1
    /\ req = [r \in Reqs |-> IdleReq]

SpecRegister == InitRegister /\ [][NextRegister]_vars

\* part_003 on a store whose first order a rider has already accepted
ClaimedOrder == AcceptSet_p3(FirstOrder("P3"), "r1")

InitClaimed ==
    /\ variant = "P3"
    /\ bodies = "plain"
    /\ users = NoUsers
    /\ orders = <<ClaimedOrder>>
    /\ stock0 \in 0..MaxStock
    /\ stock = [p \in ProductIds |-> stock0]
    /\ now = 1
    /\ req = [r \in Reqs |-> IdleReq]

SpecClaimed == InitClaimed /\ [][NextP3]_vars

\* ================================================================ claims
AcceptsOn(o) ==
    {r \in Reqs : req[r].kind = "accept" /\ req[r].pc = "done"
                  /\ req[r].oid = o /\ Role(req[r].caller) = "rider"}

Winners(o) == {r \in AcceptsOn(o) : req[r].resp = 200}

StockTracking == variant \in {"P3", "S1"}

Creates == {r \in Reqs : req[r].kind = "create"}

\* C1: POST /api/jobs/:orderId/accept (part_003): of the riders' requests on
\* one order at most one is answered 200; every other one is answered with a
\* failure (404, or 500 when the store call itself failed); as soon as one
\* request's update has reached the stored order, exactly one request has
\* won, and the order is 'shipped' with the winner's id as rider.
C1_ExactlyOneWinner ==
    variant = "P3" =>
      \A o \in OrderIds :
        /\ Cardinality(Winners(o)) <= 1
        /\ \A r \in AcceptsOn(o) : req[r].resp \in {200, 404, 500}
        /\ (\E r \in AcceptsOn(o) : req[r].sawOrder)
              => Cardinality(Winners(o)) = 1
        /\ \A r \in Winners(o) : /\ orders[o].status = "shipped"
                                 /\ orders[o].rider = req[r].caller

\* the request that arrived second won and the one that arrived first lost:
\* both were in flight together
C1_Witness ==
    /\ variant = "P3"
    /\ req[1].kind = "accept" /\ req[2].kind = "accept"
    /\ req[1].oid = req[2].oid /\ req[1].caller # req[2].caller
    /\ req[2].resp = 200 /\ req[1].resp = 404 /\ req[1].sawOrder

\* C2: POST /api/orders/accept/:orderId (server.js): of two different
\* riders' requests on one order at most one is answered 200, and the stored
\* rider is the one that was answered 200.
C2_ReadThenSaveOneWinner ==
    variant = "S2" =>
      \A o \in OrderIds :
        /\ \A r, q \in Winners(o) : req[r].caller = req[q].caller
        /\ \A r \in Winners(o) : orders[o].rider = req[r].caller

\* the status a new order is given: 'pending', or 'Placed' (part_002 243,
\* part_004 77)
CreatedStatus == {"pending", "Placed"}

\* C3: every stored order has a rider if and only if its status is not
\* the one orders are created with ('pending'; 'Placed' in the schema of
\* part_000).
C3_RiderIffNotPending ==
    \A o \in OrderIds :
        (orders[o].rider # Null) <=> (orders[o].status \notin CreatedStatus)

\* an order a request of this run created has been accepted
C3_Witness ==
    \E r \in Creates, q \in Reqs :
        /\ req[r].created \in OrderIds
        /\ req[q].kind = "accept" /\ req[q].resp = 200
        /\ req[q].oid = req[r].created
        /\ orders[req[r].created].rider = req[q].caller

\* C4: part_003: once an order has a rider, no step of any request changes
\* that order's rider or status.
C4_WinnerIsFinal ==
    [][variant = "P3" =>
         \A o \in OrderIds :
            orders[o].rider # Null =>
               /\ orders'[o].rider = orders[o].rider
               /\ orders'[o].status = orders[o].status]_vars

\* another rider's request reached the claimed order and was turned away
C4_Witness ==
    /\ variant = "P3"
    /\ \E o \in OrderIds : \E r \in AcceptsOn(o) :
          /\ orders[o].rider # Null
          /\ req[r].caller # orders[o].rider
          /\ req[r].sawOrder /\ req[r].resp = 404

\* C5: both accept handlers: a request by a rider who has already been
\* answered 200 for the same order changes no order and is answered with a
\* failure.
C5_SecondAcceptFails ==
    [][\A r \in Reqs :
          (req[r].afterWin /\ req'[r] # req[r]) =>
             /\ orders' = orders
             /\ req'[r].pc = "done"
             /\ req'[r].resp \in {400, 404, 500}]_vars

C5_Witness ==
    \E r \in Reqs :
        /\ req[r].afterWin /\ req[r].pc = "done"
        /\ req[r].resp \in {400, 404}
        /\ orders[req[r].oid].rider = req[r].caller

\* C6: stock-tracking order creation: the orders stored for the product are
\* never more than the stock the product started with.
C6_NoOverselling ==
    StockTracking =>
        Cardinality({r \in Creates : req[r].created # 0}) <= stock0

\* C7: stock-tracking order creation: a request answered with a failure has
\* stored no order and written no stock; a request answered 201 has stored
\* its order and lowered the stock by one.
C7_AllOrNothing ==
    StockTracking =>
      \A r \in Creates :
        req[r].pc = "done" =>
          IF req[r].resp = 201
          THEN req[r].created # 0 /\ req[r].stockDelta = -1
          ELSE req[r].created = 0 /\ req[r].stockDelta = 0

\* C8: GET /api/jobs: every order a feed request reads into its response is
\* pending and without a rider in the store at that moment, so an order that
\* has been accepted is in no response read afterwards.
C8_FeedOnlyOpenJobs ==
    [][\A r \in Reqs :
          \A o \in req'[r].jobs \ req[r].jobs :
             /\ o \in OrderIds
             /\ orders[o].status = "pending"
             /\ orders[o].rider = Null]_vars

\* a feed answered 200 after the order was accepted, without that order
C8_Witness ==
    \E r \in Reqs, o \in OrderIds :
        /\ req[r].kind = "jobs" /\ req[r].resp = 200
        /\ orders[o].rider # Null
        /\ o \notin req[r].jobs

\* C9: every GET /api/jobs handler answers a caller who is neither rider nor
\* admin with 403 and no job data.
C9_FeedRoleGuard ==
    \A r \in Reqs :
        (/\ req[r].kind = "jobs" /\ req[r].pc = "done"
         /\ Role(req[r].caller) \notin {"rider", "admin"})
           => req[r].resp = 403 /\ req[r].jobs = {}

\* C10: both accept handlers: every step of an accept request whose caller
\* is no rider ends the request with 403 and changes no order, whether the
\* target exists or not and whatever its status and rider are.
C10_NonRiderDenied ==
    [][\A r \in Reqs :
          (/\ req'[r] # req[r]
           /\ req'[r].kind = "accept"
           /\ Role(req'[r].caller) # "rider")
             => /\ req'[r].pc = "done"
                /\ req'[r].resp = 403
                /\ orders' = orders]_vars

\* an admin was denied an order that was there and open
C10_Witness ==
    \E r \in Reqs :
        /\ req[r].kind = "accept" /\ req[r].caller = "a1"
        /\ req[r].resp = 403
        /\ req[r].oid \in OrderIds
        /\ orders[req[r].oid].status = "pending"

\* C11: POST /api/jobs/:orderId/accept (part_003): a rider's request that
\* found the order but not the guard (already claimed) and a rider's request
\* for an order id that does not exist are answered with different statuses.
C11_ConflictIsNotNotFound ==
    variant = "P3" =>
      \A r, q \in Reqs :
        (/\ req[r].kind = "accept" /\ req[r].pc = "done"
         /\ req[q].kind = "accept" /\ req[q].pc = "done"
         /\ Role(req[r].caller) = "rider" /\ Role(req[q].caller) = "rider"
         /\ req[r].resp \notin {200, 500} /\ req[q].resp \notin {200, 500}
         /\ req[r].sawOrder /\ ~req[q].sawOrder)
           => req[r].resp # req[q].resp

\* the step in which request r's order.save() inserts the order
SavesOrder(r) ==
    req[r].kind = "create" /\ req[r].created = 0 /\ req'[r].created # 0

\* C12: POST /api/orders (part_003 and server.js 312): the stored commission
\* is price * COMMISSION_RATE as computed, not rounded (5% in part_003, 10%
\* in server.js); the server.js handler stores totalAmount = price +
\* deliveryFee; the part_003 handler stores price and deliveryFee (1500 when
\* the body has none) and no totalAmount.
C12_CommissionAsComputed ==
    [][\A r \in Reqs :
          SavesOrder(r) =>
            LET o == orders'[req'[r].created]
                q == req[r]
            IN  /\ variant = "P3" =>
                      /\ o.commission = q.price * CommissionPct_p3
                      /\ o.price = q.price
                      /\ o.deliveryFee =
                            (IF q.fee = NoNum THEN DefaultDeliveryFee
                             ELSE q.fee)
                      /\ o.totalAmount = NoNum
                /\ variant = "S2" =>
                      /\ o.commission = q.price * CommissionPct_s2
                      /\ o.deliveryFee = q.fee
                      /\ o.totalAmount = q.price + q.fee]_vars

\* an order was stored with a commission that is no whole amount
C12_Witness ==
    \E r \in Reqs :
        /\ variant \in {"P3", "S2"}
        /\ req[r].kind = "create" /\ req[r].created \in OrderIds
        /\ orders[req[r].created].commission % 100 # 0

\* C12 as stated: the stored commission is round(price * COMMISSION_RATE)
\* and the stored totalAmount is price + deliveryFee.
C12_CommissionRounded ==
    [][\A r \in Reqs :
          (SavesOrder(r) /\ variant \in {"P3", "S2"}) =>
            LET o == orders'[req'[r].created]
                pct == IF variant = "P3" THEN CommissionPct_p3
                       ELSE CommissionPct_s2
            IN  /\ o.commission = Round(req[r].price * pct)
                /\ o.totalAmount = req[r].price + o.deliveryFee]_vars

\* C13: POST /api/orders, every deployment: the buyer of a stored order is
\* the caller whose request stored it, whatever the body says.
C13_BuyerIsCaller ==
    \A r \in Creates :
        req[r].created \in OrderIds
            => orders[req[r].created].buyer = req[r].caller

\* C14: POST /api/orders (part_003): the orders stored for one product have
\* the same price, commission and seller, the seller of the product record,
\* whatever price and sellerId the bodies carried.
C14_PriceAndSellerFromProduct ==
    variant = "P3" =>
      \A i, j \in OrderIds :
        orders[i].product = orders[j].product
            => /\ orders[i].price = orders[j].price
               /\ orders[i].commission = orders[j].commission
               /\ orders[i].seller = orders[j].seller

\* C15: every stored order refers to a product of the product store.
C15_ProductExists ==
    \A o \in OrderIds : orders[o].product \in ProductIds

\* C16: POST /api/orders where the product is looked up and its stock is
\* tested (part_003, server.js 122): when the lookup step ends the request
\* without a store failure, the answer is 404 for a missing product and 400
\* for a product out of stock, and neither orders nor stock change.
C16_NotFoundVsOutOfStock ==
    [][\A r \in Reqs :
          (/\ StockTracking
           /\ req[r].kind = "create" /\ req[r].pc = "find"
           /\ req'[r].pc = "done" /\ req'[r].resp # 500)
             => /\ req[r].pid \notin ProductIds => req'[r].resp = 404
                /\ req[r].pid \in ProductIds => req'[r].resp = 400
                /\ orders' = orders /\ stock' = stock]_vars

\* the statuses of an order on its way: 'shipped' (part_003), 'shipping'
\* (server.js 397)
InTransit == {"shipped", "shipping"}

\* C17: in every step that changes the status of a stored order, the order
\* was 'pending' with rider null in the store, the new status is the
\* in-transit one, and the step is the store update of an accept request;
\* so no step changes a delivered or cancelled order or sets 'pending'.
C17_StatusOnlyPendingToInTransit ==
    [][\A o \in OrderIds :
          orders'[o].status # orders[o].status
            => /\ orders[o].status = "pending" /\ orders[o].rider = Null
               /\ orders'[o].status \in InTransit
               /\ \E r \in Reqs : /\ req[r].kind = "accept"
                                  /\ req[r].oid = o
                                  /\ req[r].pc \in {"update", "save"}
                                  /\ req'[r].pc = "done"]_vars

\* an accept was answered 200 and its order is on its way
C17_Witness ==
    \E r \in Reqs :
        /\ req[r].kind = "accept" /\ req[r].resp = 200
        /\ req[r].oid \in OrderIds
        /\ orders[req[r].oid].status \in InTransit
        /\ orders[req[r].oid].rider = req[r].caller

\* C18: no step removes a stored order or changes its buyer, seller,
\* product, price, deliveryFee, commission, totalAmount or createdAt: a
\* stored order differs after a step in status and rider at most.
C18_AppendOnlyImmutable ==
    [][/\ Len(orders') >= Len(orders)
       /\ \A o \in OrderIds :
             orders'[o] = [orders[o] EXCEPT !.status = orders'[o].status,
                                            !.rider = orders'[o].rider]]_vars

\* the first order has been accepted and another order has been stored
C18_Witness ==
    /\ Len(orders) >= 2
    /\ orders[1].rider # Null
    /\ \E r \in Reqs : /\ req[r].kind = "accept" /\ req[r].resp = 200
                       /\ req[r].oid = 1

\* C19: GET /api/user/orders/:userId (part_002): the answer lists each
\* stored order that has the user as buyer, seller or rider once and no
\* other order, later createdAt first, and the step changes neither orders
\* nor stock.
C19_HistoryExactAndSorted ==
    [][\A r \in Reqs :
          (/\ req[r].kind = "history" /\ req[r].pc = "query"
           /\ req'[r].pc = "done")
            => LET lst == req'[r].list
                   u == req[r].uid
               IN  /\ req'[r].resp = 200
                   /\ {lst[i] : i \in 1..Len(lst)} =
                         {o \in OrderIds : \/ orders[o].buyer = u
                                          \/ orders[o].seller = u
                                          \/ orders[o].rider = u}
                   /\ \A i, j \in 1..Len(lst) :
                         i < j => /\ lst[i] # lst[j]
                                  /\ orders[lst[i]].createdAt
                                        >= orders[lst[j]].createdAt
                   /\ orders' = orders /\ stock' = stock]_vars

\* a history answer of two orders, the later one first
C19_Witness ==
    \E r \in Reqs :
        /\ req[r].kind = "history" /\ req[r].resp = 200
        /\ Len(req[r].list) = 2
        /\ orders[req[r].list[1]].createdAt > orders[req[r].list[2]].createdAt

\* C20: no request ends without a response: a store call that fails is
\* answered (500) by the handler it failed in.
C20_FailureIsAnswered ==
    \A r \in Reqs : req[r].pc # "unhandled"

C22_FeedAnswersRider ==
    variant = "P3" =>
      \A r \in Reqs :
        (/\ req[r].kind = "jobs" /\ req[r].pc = "query"
         /\ Role(req[r].caller) = "rider")
          => ENABLED (/\ JobsQuery_p3(r)
                      /\ req'[r].resp = 200
                      /\ req'[r].jobs =
                            {o \in OrderIds : /\ orders[o].status = "pending"
                                             /\ orders[o].rider = Null})

\* C23: an order that a rider has accepted goes on to 'delivered'.
C23_ClaimedIsDelivered ==
    \A o \in 1..(MaxReqs + 1) :
        (o \in OrderIds /\ orders[o].status \in InTransit)
            ~> (o \in OrderIds /\ orders[o].status = "delivered")

\* C24: POST /api/orders (server.js 312, part_002 216): a request without
\* deliveryFee that is valid otherwise and has reached its save can be
\* answered 201, the stored order having the default fee and totalAmount =
\* price + that fee.
C24_DefaultFeeWhenAbsent ==
    variant \in {"S2", "P2b"} =>
      \A r \in Reqs :
        (/\ req[r].kind = "create" /\ req[r].pc = "saveOrder"
         /\ req[r].fee = NoNum
         /\ req[r].price # NoNum
         /\ variant = "S2" => req[r].buyer # Null)
          => ENABLED (/\ CreateSaveOrder_s2(r) \/ CreateSaveOrder_p2b(r)
                      /\ req'[r].resp = 201
                      /\ LET o == orders'[Len(orders')]
                         IN  /\ o.deliveryFee = DefaultDeliveryFee
                             /\ o.totalAmount =
                                   req[r].price + DefaultDeliveryFee)

\* C25: POST /api/orders with a required-field test (sellerId in part_003
\* and server.js 117; productId, price and sellerId in part_004): a request
\* that lacks a field the handler tests is answered 400 on arrival, and
\* that step changes neither orders nor stock; a request goes on only with
\* every tested field present.
C25_MissingFieldIs400 ==
    [][\A r \in Reqs :
          (/\ variant \in {"P3", "S1", "P4"}
           /\ req[r].pc = "idle" /\ req'[r].kind = "create")
            => IF req'[r].pc = "done"
               THEN /\ req'[r].resp = 400
                    /\ orders' = orders /\ stock' = stock
               ELSE /\ req'[r].seller # Null
                    /\ variant = "P4" => /\ req'[r].pid # Null
                                         /\ req'[r].price # NoNum]_vars

\* part_004 has answered a request 400 and stored nothing for it
C25_Witness ==
    \E r \in Reqs :
        /\ variant = "P4"
        /\ req[r].kind = "create" /\ req[r].resp = 400
        /\ req[r].created = 0

\* C26: both accept handlers: a step of an accept request on order o leaves
\* every other order and all stock as they were and adds no order, and
\* what the step answers is fixed by the caller's role and the stored
\* order o alone (a failing store call, 500, apart).
C26_AcceptTouchesItsOrderOnly ==
    [][\A r \in Reqs :
          (req'[r] # req[r] /\ req'[r].kind = "accept")
            => LET o == req'[r].oid
                   here == o \in OrderIds
                   done == req'[r].pc = "done"
                   resp == req'[r].resp
               IN  /\ Len(orders') = Len(orders)
                   /\ \A x \in OrderIds \ {o} : orders'[x] = orders[x]
                   /\ stock' = stock
                   /\ req[r].pc = "idle" =>
                         (done <=> Role(req'[r].caller) # "rider")
                   /\ (req[r].pc = "idle" /\ done) => resp = 403
                   /\ (req[r].pc = "update" /\ resp # 500) =>
                         resp = (IF /\ here
                                    /\ orders[o].status = "pending"
                                    /\ orders[o].rider = Null
                                 THEN 200 ELSE 404)
                   /\ (req[r].pc = "read" /\ done /\ resp # 500) =>
                         resp = (IF here THEN 400 ELSE 404)
                   /\ req[r].pc = "read" =>
                         (done \/ (here /\ orders[o].rider = Null))
                   /\ (req[r].pc = "read" /\ resp = 400) =>
                         orders[o].rider # Null
                   /\ req[r].pc = "save" => resp \in {200, 500}]_vars

\* an accept was answered 200 while another order stayed open
C26_Witness ==
    \E r \in Reqs :
        /\ req[r].kind = "accept" /\ req[r].resp = 200
        /\ \E x \in OrderIds : /\ x # req[r].oid
                               /\ orders[x].status = "pending"
                               /\ orders[x].rider = Null

\* C27: stock-tracking order creation (part_003, server.js 117): the stock
\* of a product is never below zero, however the creation requests on it
\* interleave.
C27_StockNeverNegative ==
    StockTracking => \A p \in ProductIds : stock[p] >= 0

\* two requests read the same stock, both stored their order and both
\* wrote the stock; it is zero
C27_Witness ==
    /\ StockTracking
    /\ \E r, q \in Creates :
          /\ r # q
          /\ req[r].resp = 201 /\ req[q].resp = 201
    /\ \E p \in ProductIds : stock[p] = 0

\* C28: POST /api/register: no step of a registration changes an account
\* that is stored, and a registration is given a token only for the
\* account its own insert has just created.
C28_RegisterKeepsAccounts ==
    [][/\ \A e \in DOMAIN users : e \in DOMAIN users' /\ users'[e] = users[e]
       /\ \A r \in Reqs :
             (req[r].kind = "register" /\ req'[r].token # req[r].token)
                => req[r].email \notin DOMAIN users]_vars
====
